---- MODULE Spec2Model ----
(***************************************************************************)
(* Fast-response k-server on a line: fast_response_k_server(n, k, w) of    *)
(* Fastkserver.py (duplicated in "Fast k server.py").  One call of the     *)
(* function is modelled as a run through its four stages: prefix sums, the *)
(* interval cost table, the dynamic program, and the backtracking loop     *)
(* followed by the computation of the server positions.  Python list       *)
(* semantics are kept: an index >= len raises IndexError, a negative index *)
(* counts from the end of the list, and inf absorbs addition.              *)
(***************************************************************************)
EXTENDS Integers, Sequences, FiniteSets

\* ---- bounds of the explored inputs ----
MaxN == 4          \* n ranges over 0..MaxN
MaxK == 5          \* k ranges over 0..MaxK
MaxW == 2          \* each weight ranges over MinW..MaxW
MinW == 0 - 1      \* one negative weight, to exercise the unvalidated input

\* math.inf: larger than every finite cost the bounded inputs can produce,
\* absorbing under addition (see Add).
Inf == 1000000

VARIABLES n, k, w, pc, err, W, XW, cost, best_server, DP, choice,
          min_total_cost, t, j, segments, server_positions

vars == <<n, k, w, pc, err, W, XW, cost, best_server, DP, choice,
          min_total_cost, t, j, segments, server_positions>>

\* a table that has not been allocated yet
NotBuilt == <<>>

\* absent position (Python None) and a present position m
None == <<>>
Some(m) == <<m>>

\* len(w)
Len0(f) == Cardinality(DOMAIN f)

\* Python list indexing xs[idx] on a list with indices 0..len-1:
\* a negative idx counts from the end.
PyIdx(idx, len) == IF idx < 0 THEN idx + len ELSE idx

\* inf + x = inf
Add(a, b) == IF a = Inf \/ b = Inf THEN Inf ELSE a + b

\* ---- STEP 1: prefix sums ----
RECURSIVE PrefixW(_, _)
PrefixW(i, wt) == IF i = 0 THEN 0 ELSE PrefixW(i - 1, wt) + wt[i]

RECURSIVE PrefixXW(_, _)
PrefixXW(i, wt) == IF i = 0 THEN 0 ELSE PrefixXW(i - 1, wt) + i * wt[i]

\* ---- weighted median ----
RECURSIVE MedianScan(_, _, _, _, _)
MedianScan(pos, jj, Wt, target, m) ==
    IF pos > jj THEN m
    ELSE IF Wt[pos] >= target THEN pos
    ELSE MedianScan(pos + 1, jj, Wt, target, m)

\* variant: the half is rounded down instead of up
MedianTargetFloor(i, jj, Wt) ==
    LET totalW == Wt[jj] - Wt[i - 1]
    IN  Wt[i - 1] + (totalW \div 2)

\* lines 12-13
MedianTarget(i, jj, Wt) ==
    LET totalW == Wt[jj] - Wt[i - 1]
    IN  Wt[i - 1] + ((totalW + 1) \div 2)

find_weighted_median(i, jj, Wt) ==
    MedianScan(i, jj, Wt, MedianTarget(i, jj, Wt), i)

\* ---- STEP 2: cost of one interval ----
\* variant: the left weight is taken from W[i] instead of W[i-1]
IntervalCostOff(i, jj, m, Wt, XWt) ==
    LET Left  == IF i <= m - 1
                 THEN m * (Wt[m - 1] - Wt[i]) - (XWt[m - 1] - XWt[i - 1])
                 ELSE 0
        Right == IF m + 1 <= jj
                 THEN (XWt[jj] - XWt[m]) - m * (Wt[jj] - Wt[m])
                 ELSE 0
    IN  Left + Right

\* lines 46-60
IntervalCost(i, jj, m, Wt, XWt) ==
    LET Left  == IF i <= m - 1
                 THEN m * (Wt[m - 1] - Wt[i - 1]) - (XWt[m - 1] - XWt[i - 1])
                 ELSE 0
        Right == IF m + 1 <= jj
                 THEN (XWt[jj] - XWt[m]) - m * (Wt[jj] - Wt[m])
                 ELSE 0
    IN  Left + Right

BestServerTable(nn, Wt) ==
    [i \in 0..nn |-> [jj \in 0..nn |->
        IF 1 <= i /\ i <= jj THEN find_weighted_median(i, jj, Wt) ELSE 0]]

CostTable(nn, Wt, XWt, best) ==
    [i \in 0..nn |-> [jj \in 0..nn |->
        IF 1 <= i /\ i <= jj THEN IntervalCost(i, jj, best[i][jj], Wt, XWt) ELSE 0]]

Init ==
    /\ n \in 0..MaxN
    /\ k \in 0..MaxK
    /\ \E wlen \in {n, n + 1, n + 2} :
          w \in {f \in [0..(wlen - 1) -> MinW..MaxW] :
                    \A x \in DOMAIN f : (x = 0 \/ x > n) => f[x] = 0}
    /\ pc = "prefix"
    /\ err = "none"
    /\ W = NotBuilt /\ XW = NotBuilt
    /\ cost = NotBuilt /\ best_server = NotBuilt
    /\ DP = NotBuilt /\ choice = NotBuilt
    /\ min_total_cost = 0
    /\ t = 0 /\ j = 0
    /\ segments = <<>>
    /\ server_positions = <<>>

\* lines 30-34: W and XW are allocated, then filled from w[1..n];
\* w[i] raises IndexError when len(w) <= i.
Prefix ==
    /\ pc = "prefix"
    /\ IF n >= 1 /\ Len0(w) <= n
       THEN /\ pc' = "error"
            /\ err' = "IndexError"
            /\ W' = [i \in 0..n |-> IF i < Len0(w) THEN PrefixW(i, w) ELSE 0]
            /\ XW' = [i \in 0..n |-> IF i < Len0(w) THEN PrefixXW(i, w) ELSE 0]
       ELSE /\ pc' = "cost"
            /\ err' = err
            /\ W' = [i \in 0..n |-> PrefixW(i, w)]
            /\ XW' = [i \in 0..n |-> PrefixXW(i, w)]
    /\ UNCHANGED <<n, k, w, cost, best_server, DP, choice, min_total_cost,
                   t, j, segments, server_positions>>

\* lines 38-60
Cost ==
    /\ pc = "cost"
    /\ best_server' = BestServerTable(n, W)
    /\ cost' = CostTable(n, W, XW, best_server')
    /\ pc' = "dp"
    /\ UNCHANGED <<n, k, w, err, W, XW, DP, choice, min_total_cost,
                   t, j, segments, server_positions>>

\* ---- STEP 3: dynamic program ----
\* variant: a tie replaces the best split too
ImprovesOrTies(val, best_val) == val <= best_val

\* line 79: a candidate split replaces the best one only when strictly better
Improves(val, best_val) == val < best_val

\* variant: the last segment is costed from i instead of i+1
SplitValOff(i, jj, prev, ct) == Add(prev[i], ct[i][jj])

\* line 78: cost of covering 1..i with t-1 servers and i+1..jj with one
SplitVal(i, jj, prev, ct) == Add(prev[i], ct[i + 1][jj])

\* variant: best_i is assigned on every iteration, not only on improvement
RECURSIVE SplitScanLastI(_, _, _, _, _, _)
SplitScanLastI(i, jj, prev, ct, best_val, best_i) ==
    IF i >= jj THEN <<best_val, best_i>>
    ELSE LET val == SplitVal(i, jj, prev, ct)
         IN  IF Improves(val, best_val)
             THEN SplitScanLastI(i + 1, jj, prev, ct, val, i)
             ELSE SplitScanLastI(i + 1, jj, prev, ct, best_val, i)

\* lines 75-81: scan i = from .. jj-1, keeping <<best_val, best_i>>
RECURSIVE SplitScan(_, _, _, _, _, _)
SplitScan(i, jj, prev, ct, best_val, best_i) ==
    IF i >= jj THEN <<best_val, best_i>>
    ELSE LET val == SplitVal(i, jj, prev, ct)
         IN  IF Improves(val, best_val)
             THEN SplitScan(i + 1, jj, prev, ct, val, i)
             ELSE SplitScan(i + 1, jj, prev, ct, best_val, best_i)

\* variant: the scan starts at t instead of t-1
FirstSplitOff(tt) == tt

\* line 77: first candidate split for t servers
FirstSplit(tt) == tt - 1

\* variant: the prefix of exactly t clients is skipped as well
LayerSkipEq(tt, nn, prev, ct) ==
    LET cell(jj) == SplitScan(FirstSplit(tt), jj, prev, ct, Inf, 0 - 1)
    IN  [DP     |-> [jj \in 0..nn |-> IF jj <= tt THEN Inf ELSE cell(jj)[1]],
         choice |-> [jj \in 0..nn |-> IF jj <= tt THEN 0 - 1 ELSE cell(jj)[2]]]

\* lines 72-83 for one t >= 2: row tt of DP and of choice, from row tt-1
Layer(tt, nn, prev, ct) ==
    LET cell(jj) == SplitScan(FirstSplit(tt), jj, prev, ct, Inf, 0 - 1)
    IN  [DP     |-> [jj \in 0..nn |-> IF jj < tt THEN Inf ELSE cell(jj)[1]],
         choice |-> [jj \in 0..nn |-> IF jj < tt THEN 0 - 1 ELSE cell(jj)[2]]]

\* lines 63-69: allocation and the rows for 0 and 1 servers
BaseTables(kk, nn, ct) ==
    [DP     |-> [tt \in 0..kk |-> [jj \in 0..nn |->
                   IF tt = 0 /\ jj = 0 THEN 0
                   ELSE IF tt = 1 /\ jj >= 1 THEN ct[1][jj]
                   ELSE Inf]],
     choice |-> [tt \in 0..kk |-> [jj \in 0..nn |->
                   IF tt = 1 /\ jj >= 1 THEN 0 ELSE 0 - 1]]]

\* lines 71-83: rows tt..kk filled in increasing order of tt
RECURSIVE FillLayers(_, _, _, _, _)
FillLayers(tt, kk, nn, tab, ct) ==
    IF tt > kk THEN tab
    ELSE LET row == Layer(tt, nn, tab.DP[tt - 1], ct)
         IN  FillLayers(tt + 1, kk, nn,
                        [DP     |-> [tab.DP EXCEPT ![tt] = row.DP],
                         choice |-> [tab.choice EXCEPT ![tt] = row.choice]],
                        ct)

\* lines 63-90; DP[1][j] raises IndexError when the tables have a single row
\* (k = 0) and n >= 1.
Dp ==
    /\ pc = "dp"
    /\ IF k = 0 /\ n >= 1
       THEN /\ pc' = "error"
            /\ err' = "IndexError"
            /\ DP' = [tt \in 0..k |-> [jj \in 0..n |-> IF jj = 0 THEN 0 ELSE Inf]]
            /\ choice' = [tt \in 0..k |-> [jj \in 0..n |-> 0 - 1]]
            /\ UNCHANGED <<min_total_cost, t, j>>
       ELSE LET tab == FillLayers(2, k, n, BaseTables(k, n, cost), cost)
            IN  /\ DP' = tab.DP
                /\ choice' = tab.choice
                /\ min_total_cost' = tab.DP[k][n]
                /\ t' = k
                /\ j' = n
                /\ pc' = "backtrack"
                /\ err' = err
    /\ UNCHANGED <<n, k, w, W, XW, cost, best_server, segments, server_positions>>

\* ---- STEP 4: backtracking ----
\* line 93: left end of the segment whose split point is i
SegStart(i) == i + 1

\* lines 91-97: one iteration of the while loop
Backtrack ==
    /\ pc = "backtrack"
    /\ t > 0
    /\ LET i == choice[t][PyIdx(j, n + 1)]
       IN  /\ segments' = Append(segments, <<SegStart(i), j>>)
           /\ j' = i
    /\ t' = t - 1
    /\ UNCHANGED <<n, k, w, pc, err, W, XW, cost, best_server, DP, choice,
                   min_total_cost, server_positions>>

\* variant: the segments are left in backtracking order
ReverseNone(s) == s

\* line 98
Reverse(s) == [x \in 1..Len(s) |-> s[Len(s) + 1 - x]]

\* lines 102-106
Position(seg, best) ==
    IF seg[1] <= seg[2] THEN Some(best[seg[1]][seg[2]]) ELSE None

\* lines 98-108: the loop has ended; reverse, place the servers, return
Finish ==
    /\ pc = "backtrack"
    /\ t <= 0
    /\ segments' = Reverse(segments)
    /\ server_positions' = [x \in 1..Len(segments) |->
                               Position(segments'[x], best_server)]
    /\ pc' = "done"
    /\ UNCHANGED <<n, k, w, err, W, XW, cost, best_server, DP, choice,
                   min_total_cost, t, j>>

Next == Prefix \/ Cost \/ Dp \/ Backtrack \/ Finish

Spec == Init /\ [][Next]_vars

\* ======================= reference definitions =======================
\* what the caller is required to pass (section 6 of the specification)
ValidInput ==
    /\ n >= 1
    /\ k >= 1
    /\ Len0(w) = n + 1
    /\ \A x \in 1..n : w[x] >= 0

Feasible == ValidInput /\ k <= n

\* the weights read by the code are there and none is negative
NonNegWeights == n >= 1 /\ Len0(w) >= n + 1 /\ \A x \in 1..n : w[x] >= 0

Abs(x) == IF x < 0 THEN 0 - x ELSE x

Min(S) == CHOOSE x \in S : \A y \in S : x <= y

\* sum of w[p] over p in a..b
RECURSIVE SumW(_, _)
SumW(a, b) == IF a > b THEN 0 ELSE w[a] + SumW(a + 1, b)

\* sum of w[p] * |p - m| over p in a..b, from the raw weights
RECURSIVE Dist(_, _, _)
Dist(a, b, m) == IF a > b THEN 0 ELSE w[a] * Abs(a - m) + Dist(a + 1, b, m)

\* best single server for clients a..b, by trying every position
BruteCost(a, b) == Min({Dist(a, b, m) : m \in a..b})

\* cost of the split whose segments end at the indices in ends (and at n)
RECURSIVE SplitCost(_, _)
SplitCost(L, ends) ==
    IF L > n THEN 0
    ELSE LET R == Min({x \in ends \cup {n} : x >= L})
         IN  BruteCost(L, R) + SplitCost(R + 1, ends)

\* every way to cut 1..n into exactly k non-empty contiguous segments
Splits == {ends \in SUBSET (1..(n - 1)) : Cardinality(ends) = k - 1}

BruteOptimum == Min({SplitCost(1, ends) : ends \in Splits})

DpBuilt == pc \in {"backtrack", "done"}
CostBuilt == pc \in {"dp", "backtrack", "done"}

\* ============================== claims ==============================

\* C1: for 1 <= k <= n and non-negative weights the returned min_total_cost
\* is the minimum, over all splits of 1..n into k non-empty contiguous
\* segments and all server positions inside the segments, of the total
\* weighted distance.
C1_MinCostIsOptimal ==
    (pc = "done" /\ Feasible) => min_total_cost = BruteOptimum

C1_Witness ==
    /\ pc = "done" /\ Feasible
    /\ 2 <= k /\ k < n
    /\ min_total_cost > 0
    /\ \E ends \in Splits : SplitCost(1, ends) > min_total_cost

\* C2: for non-negative weights, cost[i][j] equals the brute-force minimum
\* over m in i..j of the sum of w[p]*|p-m| for p in i..j.
C2_CostIsBruteForce ==
    (CostBuilt /\ NonNegWeights) =>
        \A i \in 1..n : \A jj \in i..n : cost[i][jj] = BruteCost(i, jj)

C2_Witness ==
    /\ CostBuilt /\ NonNegWeights
    /\ n >= 3
    /\ cost[1][n] > 0
    /\ \E m \in 1..n : Dist(1, n, m) > cost[1][n]

\* C3: for feasible k <= n the returned segments partition 1..n: there are
\* k of them, each has L <= R, the first starts at 1, the last ends at n,
\* and each starts one past the end of the previous one.
C3_SegmentsPartition ==
    (pc = "done" /\ Feasible) =>
        /\ Len(segments) = k
        /\ \A x \in 1..Len(segments) : segments[x][1] <= segments[x][2]
        /\ segments[1][1] = 1
        /\ segments[Len(segments)][2] = n
        /\ \A x \in 1..(Len(segments) - 1) :
               segments[x + 1][1] = segments[x][2] + 1

C3_Witness ==
    /\ pc = "done" /\ Feasible
    /\ k >= 3
    /\ \E x \in 1..Len(segments) : segments[x][1] < segments[x][2]

\* sum of cost[L][R] over the first x segments
RECURSIVE SegCostSum(_)
SegCostSum(x) ==
    IF x = 0 THEN 0
    ELSE cost[segments[x][1]][segments[x][2]] + SegCostSum(x - 1)

\* C4: for feasible k <= n the costs cost[L][R] of the recovered segments
\* add up to the returned min_total_cost, which is DP[k][n].
C4_SegmentCostsSumToDP ==
    (pc = "done" /\ Feasible) =>
        /\ min_total_cost = DP[k][n]
        /\ \A x \in 1..Len(segments) :
               /\ segments[x][1] \in 0..n
               /\ segments[x][2] \in 0..n
        /\ SegCostSum(Len(segments)) = min_total_cost

C4_Witness ==
    /\ pc = "done" /\ Feasible
    /\ k >= 2
    /\ min_total_cost > 0
    /\ Cardinality({x \in 1..Len(segments) :
                      cost[segments[x][1]][segments[x][2]] > 0}) >= 2

\* C5: a call with k > n (n >= 1, well-formed non-negative weights) raises
\* an Infeasible error and never returns a result.
C5_InfeasibleRaises ==
    (n >= 1 /\ k > n /\ Len0(w) = n + 1 /\ \A x \in 1..n : w[x] >= 0) =>
        /\ pc # "done"
        /\ err \in {"none", "Infeasible"}

\* C6: a call with n < 1, k < 1, len(w) # n+1 or a negative weight fails
\* with InvalidArgument before any table is built and returns no result.
C6_InvalidArgumentRaises ==
    (~ValidInput) =>
        /\ pc # "done"
        /\ err \in {"none", "InvalidArgument"}
        /\ W = NotBuilt /\ XW = NotBuilt
        /\ cost = NotBuilt /\ best_server = NotBuilt
        /\ DP = NotBuilt /\ choice = NotBuilt

\* C7: with k = n (n >= 1, non-negative weights) the call returns cost 0,
\* the segments (1,1), ..., (n,n) in order and the positions 1, ..., n.
C7_KEqualsN ==
    (pc = "done" /\ ValidInput /\ k = n) =>
        /\ min_total_cost = 0
        /\ segments = [x \in 1..n |-> <<x, x>>]
        /\ server_positions = [x \in 1..n |-> Some(x)]

C7_Witness ==
    /\ pc = "done" /\ ValidInput /\ k = n
    /\ n >= 3
    /\ \A x \in 1..n : w[x] > 0

\* C8: DP[t][n] never increases as t goes from 1 to n, and DP[n][n] = 0.
C8_DPNonIncreasing ==
    (DpBuilt /\ Feasible) =>
        /\ \A tt \in 1..(k - 1) : DP[tt + 1][n] <= DP[tt][n]
        /\ (k = n => DP[n][n] = 0)

C8_Witness ==
    /\ DpBuilt /\ Feasible
    /\ k = n /\ n >= 3
    /\ \A tt \in 1..(k - 1) : DP[tt + 1][n] < DP[tt][n]

\* the splits of [1..jj] for tt servers that achieve DP[tt][jj]
ArgMins(tt, jj) ==
    {i \in (tt - 1)..(jj - 1) :
        DP[tt - 1][i] + cost[i + 1][jj] = DP[tt][jj]}

AllOnes4 == n = 4 /\ k = 2 /\ Len0(w) = 5 /\ \A x \in 1..4 : w[x] = 1

\* C9: for t in 2..k and t <= j <= n, choice[t][j] is the smallest i in
\* [t-1, j-1] with DP[t-1][i] + cost[i+1][j] = DP[t][j]; so n = 4, k = 2
\* with all weights 1 returns cost 2, segments (1,1),(2,4), positions 1, 3.
C9_EarliestSplitWins ==
    /\ (DpBuilt /\ ValidInput) =>
          \A tt \in 2..k : \A jj \in tt..n :
              /\ ArgMins(tt, jj) # {}
              /\ choice[tt][jj] = Min(ArgMins(tt, jj))
    /\ (pc = "done" /\ AllOnes4) =>
          /\ min_total_cost = 2
          /\ segments = <<(<<1, 1>>), (<<2, 4>>)>>
          /\ server_positions = <<Some(1), Some(3)>>

C9_Witness ==
    /\ pc = "done" /\ AllOnes4
    /\ Cardinality(ArgMins(2, 4)) >= 2

\* C10: for non-negative weights the median m of [i, j] lies in [i, j], is
\* the first position at which the cumulative interval weight reaches at
\* least half of the interval's total, and is balanced: the weight of
\* i..m-1 and the weight of m+1..j are each at most half of the total.
C10_MedianBalanced ==
    (CostBuilt /\ NonNegWeights) =>
        \A i \in 1..n : \A jj \in i..n :
            LET m == best_server[i][jj]
                total == SumW(i, jj)
            IN  /\ m \in i..jj
                /\ 2 * SumW(i, m) >= total
                /\ \A p \in i..(m - 1) : 2 * SumW(i, p) < total
                /\ 2 * SumW(i, m - 1) <= total
                /\ 2 * SumW(m + 1, jj) <= total

C10_Witness ==
    /\ CostBuilt /\ NonNegWeights
    /\ n >= 3
    /\ best_server[1][n] \in 2..(n - 1)
    /\ 2 * SumW(1, best_server[1][n]) = SumW(1, n)
    /\ w[1] = 0
====
